---- MODULE Spec2Model ----
(***************************************************************************)
(* owl: a supervisor that wraps a command in a child process, relays the   *)
(* signals it catches to the child and periodically reports the child's    *)
(* state over UDP (src/src/main.rs).                                       *)
(*                                                                         *)
(* Three threads share two atomics, CHILD_PID and LAST_SIGNAL:             *)
(*   main            main() / execute_command()                            *)
(*   signal relay    listen_signals()                                      *)
(*   heartbeat       deliver_state() / send_state()                        *)
(* The environment is the child process and the senders of signals.        *)
(***************************************************************************)
EXTENDS Integers, Sequences, FiniteSets, TLC

VARIABLES
    argv,         \* env::args_os().skip(1): the arguments after the program name
    pcMain,       \* position of the main thread
    pcRelay,      \* position of the listen_signals thread
    pcHB,         \* position of the deliver_state thread
    CHILD_PID,    \* static AtomicU32
    LAST_SIGNAL,  \* static AtomicI32
    child,        \* the OS view of the spawned process: [state, pid, status]
    waitStatus,   \* what child.wait() returned to the launcher
    lastRead,     \* execute_command: the value LAST_SIGNAL.load() returned
    retCode,      \* the i32 execute_command() returns
    exitCode,     \* the supervisor's process exit status (valid once pcMain = "exited")
    pending,      \* signals delivered to the Signals iterator and not yet yielded
    relaySig,     \* listen_signals: s of the current iteration
    relayPid,     \* listen_signals: pid of the current iteration
    handled,      \* history: the (signal, pid read) pairs of the relay's iterations
    killLog,      \* history: the signal::kill(pid, sig) calls issued
    hbPid,        \* deliver_state: pid of the current cycle
    hbOutcome,    \* history: how the body of the emitter's latest cycle ended
    sent,         \* history: datagrams handed to the network
    fs,           \* the configuration files, by path
    OPT,          \* the lazy static OPT, empty until deliver_state evaluates it
    confOpened,   \* history: the paths read_file_contents was called with
    delay,        \* deliver_state: the resolved interval in milliseconds
    childArgv,    \* the program name and arguments the child was spawned with
    hbSlept,      \* history: milliseconds slept since the emitter last ended a cycle body
    killedByFwd,  \* history: the signal that terminated the child had been forwarded to it
    stray         \* history: a forwarded signal went to another owner of the pid

vars == <<argv, pcMain, pcRelay, pcHB, CHILD_PID, LAST_SIGNAL, child, waitStatus,
          lastRead, retCode, exitCode, pending, relaySig, relayPid, handled, killLog,
          hbPid, hbOutcome, sent, fs, OPT, confOpened, delay, childArgv, hbSlept,
          killedByFwd, stray>>

optVars   == <<fs, OPT, confOpened, delay>>
mainVars  == <<pcMain, waitStatus, lastRead, retCode, exitCode>>
relayVars == <<pcRelay, relaySig, relayPid, handled, killLog>>
hbVars    == <<pcHB, hbPid, hbOutcome, sent>>

----------------------------------------------------------------------------
(* Bounds of the model *)

MaxSignals == 2   \* iterations of the relay loop that are followed
MaxSent    == 1   \* datagrams that are counted
MaxArgs    == 2   \* tokens of a command line with options

----------------------------------------------------------------------------
(* Program constants *)

OPTION_START          == "+"
UNIX_SIGNAL_EXIT_CODE == 128
SUCCESS               == 0
PROCESS_ID            == 5     \* process::id(): the supervisor's own pid
PANIC_EXIT_CODE       == 101   \* exit status of a Rust process whose main thread panics
EXIT_STATUS_MODULUS   == 256   \* the OS keeps the low 8 bits of process::exit's argument

SIGKILL == 9
SIGTERM == 15
SIGCHLD == 17

\* signal_hook::FORBIDDEN, restricted to the signals of the model
FORBIDDEN == {SIGKILL}

\* allowed_signals(): the candidates that are not forbidden
allowed_signals == {SIGCHLD, SIGKILL, SIGTERM} \ FORBIDDEN

\* signals that terminate a child that does not handle them
KillSignals == {SIGKILL, SIGTERM}

\* exit codes a child may return, and process ids the OS may hand out
ExitCodes == {0, 3}
Pids      == {7}

\* argument tokens, as sequences of characters
OptFlag == <<"+", "F">>
OptPort == <<"+", "P", ":", "9">>
CmdLs   == <<"l", "s">>
ArgA    == <<"-", "a">>

\* the argument lists the supervisor is started with
ArgLists == { <<>>,
              <<OptFlag>>,
              <<OptPort, OptFlag>>,
              <<CmdLs>>,
              <<OptPort, CmdLs, ArgA, OptFlag>> }

NoStatus == [kind |-> "none", val |-> 0]
NoChild  == [state |-> "none", pid |-> 0, status |-> NoStatus]

----------------------------------------------------------------------------
(* Pure functions *)

\* x.to_string_lossy().starts_with(OPTION_START)
starts_with_option(tok) == Len(tok) > 0 /\ tok[1] = OPTION_START

\* variant: everything from the first argument that is no option is kept
RECURSIVE collect_command_args_suffix(_)
collect_command_args_suffix(args) ==
    IF args = <<>> \/ ~starts_with_option(Head(args)) THEN args
    ELSE collect_command_args_suffix(Tail(args))

\* collect_command_args(): the arguments that are not options, in order
collect_command_args(args) == SelectSeq(args, LAMBDA t : ~starts_with_option(t))

\* the lazy static ARGS
ARGS == collect_command_args(argv)

\* variant: the first argument is taken as the command, option or not
command_name_first_arg == IF Len(argv) > 0 THEN <<argv[1]>> ELSE <<>>

\* command_name(): Some(first of ARGS) or None
command_name == IF Len(ARGS) > 0 THEN <<ARGS[1]>> ELSE <<>>

\* cast_signal(from): Signal::from_c_int accepts the standard signals only
cast_signal(from) == IF from \in 1..31 THEN <<from>> ELSE <<>>

\* variant: an observed signal takes precedence over the child's own exit code
exit_code_of_signal_first(status, last) ==
    IF status.kind = "exited" /\ last = 0 THEN status.val ELSE UNIX_SIGNAL_EXIT_CODE + last

\* variant: the signal that terminated the child is reported
exit_code_of_term_signal(status, last) ==
    IF status.kind = "exited" THEN status.val ELSE UNIX_SIGNAL_EXIT_CODE + status.val

\* .code().unwrap_or(UNIX_SIGNAL_EXIT_CODE + LAST_SIGNAL.load())
exit_code_of(status, last) ==
    IF status.kind = "exited" THEN status.val ELSE UNIX_SIGNAL_EXIT_CODE + last

\* std::process::exit(code): the status the parent of the supervisor sees
process_exit(code) == code % EXIT_STATUS_MODULUS

----------------------------------------------------------------------------
(* Option resolver: strings are sequences of characters *)

OPTION_DELIMITER == ":"
EMPTY_STR        == <<>>
SECTION_WATCH    == "watch"
OPT_CONF         == <<"C", "o", "n", "f">>
OPT_HEARTBEAT    == <<"H", "e", "a", "r", "t", "b", "e", "a", "t">>
OPT_NAME         == <<"N", "a", "m", "e">>
DEFAULT_HEARTBEAT        == <<"1", "0", "0", "0">>
DEFAULT_HEARTBEAT_MILLIS == 1000
CONF_LOCATION_CWD     == <<"owl.toml">>
CONF_LOCATION_ETC     == <<"/etc/owl.toml">>
CONF_LOCATION_ETC_OWL == <<"/etc/owl/owl.toml">>

\* a byte that is no valid UTF-8, and U+FFFD, which to_string_lossy puts for it
InvalidByte          == "\\xFF"
REPLACEMENT_CHARACTER == "U+FFFD"

\* the decimal digits, the digit d at index d + 1
Digits == <<"0", "1", "2", "3", "4", "5", "6", "7", "8", "9">>

\* OsStr::to_string_lossy(): invalid bytes become U+FFFD
to_string_lossy(os) ==
    [i \in 1..Len(os) |-> IF os[i] = InvalidByte THEN REPLACEMENT_CHARACTER ELSE os[i]]

\* variant: the split is made at the last delimiter
splitn2_last(str) ==
    LET at == {i \in 1..Len(str) : str[i] = OPTION_DELIMITER}
    IN  IF at = {} THEN <<str>>
        ELSE LET last == CHOOSE i \in at : \A j \in at : j <= i
             IN  <<SubSeq(str, 1, last - 1), SubSeq(str, last + 1, Len(str))>>

\* str::splitn(2, OPTION_DELIMITER): one part without a delimiter, else the
\* part before the first delimiter and all that follows it
splitn2(str) ==
    LET at == {i \in 1..Len(str) : str[i] = OPTION_DELIMITER}
    IN  IF at = {} THEN <<str>>
        ELSE LET first == CHOOSE i \in at : \A j \in at : i <= j
             IN  <<SubSeq(str, 1, first - 1), SubSeq(str, first + 1, Len(str))>>

\* collect_opts(): the entry one option token inserts
parse_opt(opt) ==
    LET lossy == Tail(to_string_lossy(opt))      \* lossy.remove(0)
        parts == splitn2(lossy)
    IN  IF Len(parts) = 2 THEN [name |-> parts[1], value |-> parts[2]]
                          ELSE [name |-> parts[1], value |-> EMPTY_STR]

\* HashMap::new() and HashMap::insert(k, v)
EmptyDict == [k \in {} |-> EMPTY_STR]
dict_insert(dict, k, v) == [x \in DOMAIN dict \cup {k} |-> IF x = k THEN v ELSE dict[x]]

\* collect_opts(): the options of the command line, inserted in order
RECURSIVE insert_opts(_, _)
insert_opts(dict, opts) ==
    IF opts = <<>> THEN dict
    ELSE LET e == parse_opt(Head(opts))
         IN  insert_opts(dict_insert(dict, e.name, e.value), Tail(opts))

command_line_opts(args) ==
    insert_opts(EmptyDict,
                SelectSeq(args, LAMBDA x : LET l == to_string_lossy(x)
                                           IN  Len(l) > 0 /\ l[1] = OPTION_START))

\* format!("{}", v) of an integer
RECURSIVE display_nat(_)
display_nat(n) ==
    IF n < 10 THEN <<Digits[n + 1]>> ELSE Append(display_nat(n \div 10), Digits[(n % 10) + 1])

display_int(n) == IF n < 0 THEN <<"-">> \o display_nat(0 - n) ELSE display_nat(n)

\* collect_opts(): the text of a scalar toml value, <<>> (no insert) for any
\* other shape
toml_to_string(val) ==
    CASE val.type = "String"  -> <<val.str>>
      [] val.type = "Integer" -> <<display_int(val.int)>>
      [] val.type = "Boolean" -> <<IF val.bool THEN <<"t", "r", "u", "e">>
                                               ELSE <<"f", "a", "l", "s", "e">>>>
      [] OTHER -> <<>>

\* str::parse::<u64>(): an optional '+', then one or more decimal digits; the
\* strings of the model are too short to overflow 64 bits
RECURSIVE digits_value(_)
digits_value(str) ==
    IF str = <<>> THEN 0
    ELSE digits_value(SubSeq(str, 1, Len(str) - 1)) * 10
         + (CHOOSE d \in 0..9 : Digits[d + 1] = str[Len(str)])

parse_u64(str) ==
    LET body == IF Len(str) > 0 /\ str[1] = "+" THEN Tail(str) ELSE str
    IN  IF body # <<>> /\ \A i \in 1..Len(body) : \E d \in 1..10 : Digits[d] = body[i]
        THEN <<digits_value(body)>>
        ELSE <<>>

\* variant: the default is used only when there is no entry, a text that does
\* not parse gives no delay
heartbeat_delay_no_fallback(opt) ==
    LET text   == IF OPT_HEARTBEAT \in DOMAIN opt THEN opt[OPT_HEARTBEAT]
                                                 ELSE DEFAULT_HEARTBEAT
        parsed == parse_u64(text)
    IN  IF parsed # <<>> THEN parsed[1] ELSE 0

\* deliver_state(): OPT.get(OPT_HEARTBEAT).unwrap_or(DEFAULT_HEARTBEAT)
\*                     .parse::<u64>().unwrap_or(DEFAULT_HEARTBEAT_MILLIS)
heartbeat_delay(opt) ==
    LET text   == IF OPT_HEARTBEAT \in DOMAIN opt THEN opt[OPT_HEARTBEAT]
                                                 ELSE DEFAULT_HEARTBEAT
        parsed == parse_u64(text)
    IN  IF parsed # <<>> THEN parsed[1] ELSE DEFAULT_HEARTBEAT_MILLIS

----------------------------------------------------------------------------
(* Configuration files *)

\* what is found at a path: nothing, a file that is no toml document, or a toml
\* document, of which the table of section SECTION_WATCH is kept (empty when the
\* document has no such table)
MissingFile == [kind |-> "missing", watch |-> EmptyDict]
GarbageFile == [kind |-> "garbage", watch |-> EmptyDict]
TomlFile(table) == [kind |-> "toml", watch |-> table]

\* toml::Value
TomlString(str) == [type |-> "String", str |-> str, int |-> 0, bool |-> FALSE]
TomlInteger(n)  == [type |-> "Integer", str |-> EMPTY_STR, int |-> n, bool |-> FALSE]
TomlBoolean(b)  == [type |-> "Boolean", str |-> EMPTY_STR, int |-> 0, bool |-> b]
TomlArray       == [type |-> "Array", str |-> EMPTY_STR, int |-> 0, bool |-> FALSE]

\* the path an explicit Conf option of the model names
ExplicitPath == <<"x">>

Paths == {CONF_LOCATION_CWD, CONF_LOCATION_ETC_OWL, CONF_LOCATION_ETC, ExplicitPath}

\* the document each path holds when it holds one
CwdToml    == TomlFile((OPT_HEARTBEAT :> TomlInteger(7)) @@ (OPT_NAME :> TomlString(<<"c">>)))
EtcOwlToml == TomlFile((OPT_HEARTBEAT :> TomlString(<<"-", "5">>)) @@ (<<"P">> :> TomlBoolean(TRUE)))
EtcToml    == TomlFile((OPT_HEARTBEAT :> TomlArray) @@ (<<"F">> :> TomlInteger(0 - 12)))
ExplicitToml ==
    TomlFile((OPT_HEARTBEAT :> TomlInteger(120)) @@ (<<"P">> :> TomlString(<<"8">>)))

DocumentAt(path) ==
    CASE path = CONF_LOCATION_CWD     -> CwdToml
      [] path = CONF_LOCATION_ETC_OWL -> EtcOwlToml
      [] path = CONF_LOCATION_ETC     -> EtcToml
      [] OTHER                        -> ExplicitToml

NoFiles == [p \in Paths |-> MissingFile]

FileSystems ==
    {f \in [Paths -> {MissingFile, GarbageFile, CwdToml, EtcOwlToml, EtcToml, ExplicitToml}] :
        \A p \in Paths : f[p] \in {MissingFile, GarbageFile, DocumentAt(p)}}

\* read_file_contents(path): Some(document) when the file opens, reads and
\* parses, else None
read_file_contents(path) ==
    IF path \in DOMAIN fs /\ fs[path].kind = "toml" THEN <<fs[path]>> ELSE <<>>

\* variant: the default locations are tried when the explicit one gives nothing
read_config_content_fallback(explicit_path) ==
    IF explicit_path # <<>> /\ read_file_contents(explicit_path[1]) # <<>>
        THEN read_file_contents(explicit_path[1])
    ELSE IF read_file_contents(CONF_LOCATION_CWD) # <<>>
         THEN read_file_contents(CONF_LOCATION_CWD)
    ELSE IF read_file_contents(CONF_LOCATION_ETC_OWL) # <<>>
         THEN read_file_contents(CONF_LOCATION_ETC_OWL)
    ELSE read_file_contents(CONF_LOCATION_ETC)

\* read_config_content(explicit_path)
read_config_content(explicit_path) ==
    IF explicit_path # <<>> THEN read_file_contents(explicit_path[1])
    ELSE IF read_file_contents(CONF_LOCATION_CWD) # <<>>
         THEN read_file_contents(CONF_LOCATION_CWD)
    ELSE IF read_file_contents(CONF_LOCATION_ETC_OWL) # <<>>
         THEN read_file_contents(CONF_LOCATION_ETC_OWL)
    ELSE read_file_contents(CONF_LOCATION_ETC)

\* read_config_content(explicit_path): the paths it calls read_file_contents
\* with, in order
config_reads(explicit_path) ==
    IF explicit_path # <<>> THEN <<explicit_path[1]>>
    ELSE IF read_file_contents(CONF_LOCATION_CWD) # <<>>
         THEN <<CONF_LOCATION_CWD>>
    ELSE IF read_file_contents(CONF_LOCATION_ETC_OWL) # <<>>
         THEN <<CONF_LOCATION_CWD, CONF_LOCATION_ETC_OWL>>
    ELSE <<CONF_LOCATION_CWD, CONF_LOCATION_ETC_OWL, CONF_LOCATION_ETC>>

\* collect_opts(): dict.get(OPT_CONF)
explicit_conf(dict) == IF OPT_CONF \in DOMAIN dict THEN <<dict[OPT_CONF]>> ELSE <<>>

\* variant: an entry of the configuration file replaces the command line's
collect_opts_file_wins(args) ==
    LET dict  == command_line_opts(args)
        conf  == read_config_content(explicit_conf(dict))
        watch == IF conf = <<>> THEN EmptyDict ELSE conf[1].watch
        added == {k \in DOMAIN watch : toml_to_string(watch[k]) # <<>>}
    IN  [k \in DOMAIN dict \cup added |->
            IF k \in added THEN toml_to_string(watch[k])[1] ELSE dict[k]]

\* collect_opts(): the command line's options, then the scalar entries of the
\* configuration's watch table whose key the command line has not given
collect_opts(args) ==
    LET dict  == command_line_opts(args)
        conf  == read_config_content(explicit_conf(dict))
        watch == IF conf = <<>> THEN EmptyDict ELSE conf[1].watch
        added == {k \in DOMAIN watch : k \notin DOMAIN dict /\ toml_to_string(watch[k]) # <<>>}
    IN  [k \in DOMAIN dict \cup added |->
            IF k \in DOMAIN dict THEN dict[k] ELSE toml_to_string(watch[k])[1]]

\* command_args(): ARGS without its first element
command_args == IF Len(ARGS) > 0 THEN Tail(ARGS) ELSE <<>>

----------------------------------------------------------------------------
(* Command lines with options *)

\* option tokens: a decimal value, a negative value, no value, an explicit
\* configuration path, an empty one, a value holding the delimiter, a value
\* holding a byte that is not valid Unicode, and the bare marker
OptHeartbeat      == <<"+">> \o OPT_HEARTBEAT \o <<":", "2", "5">>
OptHeartbeatNeg   == <<"+">> \o OPT_HEARTBEAT \o <<":", "-", "5">>
OptHeartbeatEmpty == <<"+">> \o OPT_HEARTBEAT
OptConf           == <<"+">> \o OPT_CONF \o <<":">> \o ExplicitPath
OptConfEmpty      == <<"+">> \o OPT_CONF
OptHost           == <<"+", "H", ":", "h", ":", "1">>
OptNameLossy      == <<"+">> \o OPT_NAME \o <<":", InvalidByte>>
OptMarker         == <<"+">>

OptTokens == {OptHeartbeat, OptHeartbeatNeg, OptHeartbeatEmpty, OptConf, OptConfEmpty, OptHost,
              OptNameLossy, OptMarker, OptFlag, OptPort, CmdLs, ArgA}

\* every argument list of at most MaxArgs tokens
OptArgLists == UNION {[1..n -> OptTokens] : n \in 0..MaxArgs}

----------------------------------------------------------------------------
\* the state of a process that has just been started
InitProcess ==
    /\ pcMain = "start"
    /\ pcRelay = "unborn"
    /\ pcHB = "unborn"
    /\ CHILD_PID = 0
    /\ LAST_SIGNAL = 0
    /\ child = NoChild
    /\ waitStatus = NoStatus
    /\ lastRead = 0
    /\ retCode = 0
    /\ exitCode = 0
    /\ pending = {}
    /\ relaySig = 0
    /\ relayPid = 0
    /\ handled = <<>>
    /\ killLog = <<>>
    /\ hbPid = 0
    /\ hbOutcome = "none"
    /\ sent = 0
    /\ OPT = EmptyDict
    /\ confOpened = <<>>
    /\ delay = 0
    /\ childArgv = <<>>
    /\ hbSlept = 0
    /\ killedByFwd = FALSE
    /\ stray = FALSE

\* the supervisor is started with one of ArgLists, no configuration file exists
Init ==
    /\ argv \in ArgLists
    /\ fs = NoFiles
    /\ InitProcess

\* the supervisor process exists and its threads can run
Alive == pcMain \notin {"start", "exited"}

----------------------------------------------------------------------------
(* main thread: main() and execute_command() *)

\* main(): env::args().len() < 2, return
main_no_args ==
    /\ pcMain = "start"
    /\ Len(argv) + 1 < 2
    /\ pcMain' = "exited"
    /\ exitCode' = SUCCESS
    /\ UNCHANGED <<argv, optVars, childArgv, hbSlept, killedByFwd, stray, lastRead, pcRelay, pcHB, CHILD_PID, LAST_SIGNAL, child, waitStatus,
                   retCode, pending, relaySig, relayPid, handled, killLog,
                   hbPid, hbOutcome, sent>>

\* main(): thread::spawn(listen_signals); thread::spawn(deliver_state)
main_start ==
    /\ pcMain = "start"
    /\ ~(Len(argv) + 1 < 2)
    /\ pcMain' = "exec"
    /\ pcRelay' = "setup"
    /\ pcHB' = "setup"
    /\ UNCHANGED <<argv, optVars, childArgv, hbSlept, killedByFwd, stray, lastRead, CHILD_PID, LAST_SIGNAL, child, waitStatus, retCode, exitCode,
                   pending, relaySig, relayPid, handled, killLog,
                   hbPid, hbOutcome, sent>>

\* execute_command(): command_name() is None, the result is SUCCESS
execute_command_none ==
    /\ pcMain = "exec"
    /\ command_name = <<>>
    /\ retCode' = SUCCESS
    /\ pcMain' = "exit"
    /\ UNCHANGED <<argv, optVars, childArgv, hbSlept, killedByFwd, stray, lastRead, pcRelay, pcHB, CHILD_PID, LAST_SIGNAL, child, waitStatus,
                   exitCode, pending, relayVars, hbPid, hbOutcome, sent>>

\* execute_command(): Command::new(name).args(..).spawn() succeeds
execute_command_spawn ==
    /\ pcMain = "exec"
    /\ command_name # <<>>
    /\ \E p \in Pids : child' = [state |-> "running", pid |-> p, status |-> NoStatus]
    /\ pcMain' = "spawned"
    /\ childArgv' = command_name \o command_args
    /\ UNCHANGED <<argv, optVars, hbSlept, killedByFwd, stray, lastRead, pcRelay, pcHB, CHILD_PID, LAST_SIGNAL, waitStatus, retCode,
                   exitCode, pending, relayVars, hbPid, hbOutcome, sent>>

\* variant: a failed spawn is swallowed and reported as success
execute_command_spawn_fail_ignored ==
    /\ pcMain = "exec"
    /\ command_name # <<>>
    /\ retCode' = SUCCESS
    /\ pcMain' = "exit"
    /\ UNCHANGED <<argv, optVars, childArgv, hbSlept, killedByFwd, stray, lastRead, pcRelay, pcHB, CHILD_PID, LAST_SIGNAL, child, waitStatus,
                   exitCode, pending, relayVars, hbPid, hbOutcome, sent>>

\* execute_command(): spawn() fails, expect() panics on the main thread
execute_command_spawn_fail ==
    /\ pcMain = "exec"
    /\ command_name # <<>>
    /\ pcMain' = "exited"
    /\ exitCode' = PANIC_EXIT_CODE
    /\ UNCHANGED <<argv, optVars, childArgv, hbSlept, killedByFwd, stray, lastRead, pcRelay, pcHB, CHILD_PID, LAST_SIGNAL, child, waitStatus,
                   retCode, pending, relayVars, hbPid, hbOutcome, sent>>

\* variant: the supervisor's own pid is published instead of the child's
execute_command_store_own_pid ==
    /\ pcMain = "spawned"
    /\ CHILD_PID' = PROCESS_ID
    /\ pcMain' = "waiting"
    /\ UNCHANGED <<argv, optVars, childArgv, hbSlept, killedByFwd, stray, lastRead, pcRelay, pcHB, LAST_SIGNAL, child, waitStatus, retCode,
                   exitCode, pending, relayVars, hbPid, hbOutcome, sent>>

\* execute_command(): CHILD_PID.store(child.id(), Relaxed)
execute_command_store ==
    /\ pcMain = "spawned"
    /\ CHILD_PID' = child.pid
    /\ pcMain' = "waiting"
    /\ UNCHANGED <<argv, optVars, childArgv, hbSlept, killedByFwd, stray, lastRead, pcRelay, pcHB, LAST_SIGNAL, child, waitStatus, retCode,
                   exitCode, pending, relayVars, hbPid, hbOutcome, sent>>

\* variant: the published pid is cleared once the child has been reaped
execute_command_wait_clears_pid ==
    /\ pcMain = "waiting"
    /\ child.state = "zombie"
    /\ waitStatus' = child.status
    /\ child' = [child EXCEPT !.state = "reaped"]
    /\ CHILD_PID' = 0
    /\ pcMain' = "code"
    /\ UNCHANGED <<argv, optVars, childArgv, hbSlept, killedByFwd, stray, lastRead, pcRelay, pcHB, LAST_SIGNAL, retCode, exitCode,
                   pending, relayVars, hbPid, hbOutcome, sent>>

\* execute_command(): child.wait() returns the status of the terminated child and
\* reaps it
execute_command_wait ==
    /\ pcMain = "waiting"
    /\ child.state = "zombie"
    /\ waitStatus' = child.status
    /\ child' = [child EXCEPT !.state = "reaped"]
    /\ pcMain' = "code"
    /\ UNCHANGED <<argv, optVars, childArgv, hbSlept, killedByFwd, stray, lastRead, pcRelay, pcHB, CHILD_PID, LAST_SIGNAL, retCode, exitCode,
                   pending, relayVars, hbPid, hbOutcome, sent>>

\* execute_command(): child.wait() fails, expect() panics on the main thread
execute_command_wait_fail ==
    /\ pcMain = "waiting"
    /\ pcMain' = "exited"
    /\ exitCode' = PANIC_EXIT_CODE
    /\ UNCHANGED <<argv, optVars, childArgv, hbSlept, killedByFwd, stray, lastRead, pcRelay, pcHB, CHILD_PID, LAST_SIGNAL, child, waitStatus,
                   retCode, pending, relayVars, hbPid, hbOutcome, sent>>

\* execute_command(): .code().unwrap_or(128 + LAST_SIGNAL.load(Relaxed)); the
\* argument of unwrap_or is evaluated after wait() has returned
execute_command_code ==
    /\ pcMain = "code"
    /\ lastRead' = LAST_SIGNAL
    /\ retCode' = exit_code_of(waitStatus, LAST_SIGNAL)
    /\ pcMain' = "exit"
    /\ UNCHANGED <<argv, optVars, childArgv, hbSlept, killedByFwd, stray, pcRelay, pcHB, CHILD_PID, LAST_SIGNAL, child, waitStatus,
                   exitCode, pending, relayVars, hbPid, hbOutcome, sent>>

\* variant: main joins the relay thread before it exits
main_exit_joins_relay ==
    /\ pcMain = "exit"
    /\ pcRelay = "dead"
    /\ exitCode' = process_exit(retCode)
    /\ pcMain' = "exited"
    /\ UNCHANGED <<argv, optVars, childArgv, hbSlept, killedByFwd, stray, lastRead, pcRelay, pcHB, CHILD_PID, LAST_SIGNAL, child, waitStatus,
                   retCode, pending, relayVars, hbPid, hbOutcome, sent>>

\* main(): std::process::exit(execute_command()); the other threads are abandoned
main_exit ==
    /\ pcMain = "exit"
    /\ exitCode' = process_exit(retCode)
    /\ pcMain' = "exited"
    /\ UNCHANGED <<argv, optVars, childArgv, hbSlept, killedByFwd, stray, lastRead, pcRelay, pcHB, CHILD_PID, LAST_SIGNAL, child, waitStatus,
                   retCode, pending, relayVars, hbPid, hbOutcome, sent>>

----------------------------------------------------------------------------
(* signal relay thread: listen_signals() *)

\* Signals::new(allowed_signals()): the handlers are installed; the forbidden
\* signals have been filtered out, so the registration is taken to succeed.
\* Signals that reach the process before this step never get to the iterator.
listen_signals_setup ==
    /\ Alive
    /\ pcRelay = "setup"
    /\ pcRelay' = "next"
    /\ UNCHANGED <<argv, optVars, childArgv, hbSlept, killedByFwd, stray, mainVars, pcHB, CHILD_PID, LAST_SIGNAL, child, pending,
                   relaySig, relayPid, handled, killLog, hbPid, hbOutcome, sent>>

\* variant: the signal is forwarded without being recorded
listen_signals_store_no_record ==
    /\ Alive
    /\ pcRelay = "next"
    /\ Len(handled) < MaxSignals
    /\ \E s \in pending :
          /\ pending' = pending \ {s}
          /\ relaySig' = s
    /\ pcRelay' = "load"
    /\ UNCHANGED <<argv, optVars, childArgv, hbSlept, killedByFwd, stray, mainVars, pcHB, CHILD_PID, LAST_SIGNAL, child, relayPid, handled, killLog,
                   hbPid, hbOutcome, sent>>

\* for s in signals.forever(): the next signal; LAST_SIGNAL.store(s, Relaxed)
listen_signals_store ==
    /\ Alive
    /\ pcRelay = "next"
    /\ Len(handled) < MaxSignals
    /\ \E s \in pending :
          /\ pending' = pending \ {s}
          /\ relaySig' = s
          /\ LAST_SIGNAL' = s
    /\ pcRelay' = "load"
    /\ UNCHANGED <<argv, optVars, childArgv, hbSlept, killedByFwd, stray, mainVars, pcHB, CHILD_PID, child, relayPid, handled, killLog,
                   hbPid, hbOutcome, sent>>

\* let pid = CHILD_PID.load(Relaxed)
listen_signals_load ==
    /\ Alive
    /\ pcRelay = "load"
    /\ relayPid' = CHILD_PID
    /\ handled' = Append(handled, [sig |-> relaySig, pid |-> CHILD_PID])
    /\ pcRelay' = "kill"
    /\ UNCHANGED <<argv, optVars, childArgv, hbSlept, killedByFwd, stray, mainVars, pcHB, CHILD_PID, LAST_SIGNAL, child, pending,
                   relaySig, killLog, hbPid, hbOutcome, sent>>

\* variant: CHILD_PID is read again when the signal is forwarded
listen_signals_kill_reload ==
    /\ Alive
    /\ pcRelay = "kill"
    /\ killLog' = IF CHILD_PID > 0 /\ cast_signal(relaySig) # <<>>
                  THEN Append(killLog, [pid |-> CHILD_PID, sig |-> cast_signal(relaySig)[1]])
                  ELSE killLog
    /\ pcRelay' = "next"
    /\ stray' = (stray \/ (CHILD_PID > 0 /\ cast_signal(relaySig) # <<>>
                             /\ child.state = "recycled"))
    /\ UNCHANGED <<argv, optVars, childArgv, hbSlept, killedByFwd, mainVars, pcHB, CHILD_PID, LAST_SIGNAL, child, pending,
                   relaySig, relayPid, handled, hbPid, hbOutcome, sent>>

\* if pid > 0 { if let Some(sig) = cast_signal(s) { signal::kill(pid, sig) } }
listen_signals_kill ==
    /\ Alive
    /\ pcRelay = "kill"
    /\ killLog' = IF relayPid > 0 /\ cast_signal(relaySig) # <<>>
                  THEN Append(killLog, [pid |-> relayPid, sig |-> cast_signal(relaySig)[1]])
                  ELSE killLog
    /\ pcRelay' = "next"
    /\ stray' = (stray \/ (relayPid > 0 /\ cast_signal(relaySig) # <<>>
                             /\ child.state = "recycled"))
    /\ UNCHANGED <<argv, optVars, childArgv, hbSlept, killedByFwd, mainVars, pcHB, CHILD_PID, LAST_SIGNAL, child, pending,
                   relaySig, relayPid, handled, hbPid, hbOutcome, sent>>

----------------------------------------------------------------------------
(* heartbeat thread: deliver_state(), read_process_info(), send_state() *)

\* deliver_state(): the delivery configuration is read before the loop
deliver_state_setup ==
    /\ Alive
    /\ pcHB = "setup"
    /\ pcHB' = "load"
    /\ OPT' = collect_opts(argv)
    /\ confOpened' = config_reads(explicit_conf(command_line_opts(argv)))
    /\ delay' = heartbeat_delay(collect_opts(argv))
    /\ UNCHANGED <<argv, fs, childArgv, hbSlept, killedByFwd, stray, mainVars, pcRelay, CHILD_PID, LAST_SIGNAL, child, pending,
                   relayVars, hbPid, hbOutcome, sent>>

\* variant: the body of the cycle runs whatever pid was read
deliver_state_load_unguarded ==
    /\ Alive
    /\ pcHB = "load"
    /\ hbPid' = CHILD_PID
    /\ pcHB' = "stat"
    /\ hbOutcome' = "none"
    /\ UNCHANGED <<argv, optVars, childArgv, hbSlept, killedByFwd, stray, mainVars, pcRelay, CHILD_PID, LAST_SIGNAL, child, pending,
                   relayVars, sent>>

\* loop { let pid = CHILD_PID.load(Relaxed); if pid > 0 {..} }: with pid = 0 the
\* body is skipped and the loop starts over at once
deliver_state_load ==
    /\ Alive
    /\ pcHB = "load"
    /\ hbPid' = CHILD_PID
    /\ pcHB' = IF CHILD_PID > 0 THEN "stat" ELSE "load"
    /\ hbOutcome' = IF CHILD_PID > 0 THEN "none" ELSE hbOutcome
    /\ UNCHANGED <<argv, optVars, childArgv, hbSlept, killedByFwd, stray, mainVars, pcRelay, CHILD_PID, LAST_SIGNAL, child, pending,
                   relayVars, sent>>

\* variant: after a failed lookup the cycle starts over without the sleep
read_process_info_no_sleep ==
    /\ Alive
    /\ pcHB = "stat"
    /\ \E ok \in BOOLEAN :
          IF ok THEN pcHB' = "send" /\ hbOutcome' = hbOutcome /\ hbSlept' = hbSlept
                ELSE pcHB' = "load" /\ hbOutcome' = "lookup_failed" /\ hbSlept' = 0
    /\ UNCHANGED <<argv, optVars, childArgv, killedByFwd, stray, mainVars, pcRelay, CHILD_PID, LAST_SIGNAL, child, pending,
                   relayVars, hbPid, sent>>

\* read_process_info(pid): stat() gives Some(info) or, on any error, None
read_process_info ==
    /\ Alive
    /\ pcHB = "stat"
    /\ \E ok \in BOOLEAN :
          IF ok THEN pcHB' = "send" /\ hbOutcome' = hbOutcome /\ hbSlept' = hbSlept
                ELSE pcHB' = "sleep" /\ hbOutcome' = "lookup_failed" /\ hbSlept' = 0
    /\ UNCHANGED <<argv, optVars, childArgv, killedByFwd, stray, mainVars, pcRelay, CHILD_PID, LAST_SIGNAL, child, pending,
                   relayVars, hbPid, sent>>

\* variant: the results of bind and send_to are unwrapped, a failure panics the
\* emitter thread
send_state_unwrap ==
    /\ Alive
    /\ pcHB = "send"
    /\ \E o \in {"bind_failed", "send_failed", "sent"} :
          /\ o = "sent" => sent < MaxSent
          /\ hbOutcome' = o
          /\ sent' = IF o = "sent" THEN sent + 1 ELSE sent
          /\ pcHB' = IF o = "sent" THEN "sleep" ELSE "dead"
    /\ hbSlept' = 0
    /\ UNCHANGED <<argv, optVars, childArgv, killedByFwd, stray, mainVars, pcRelay, CHILD_PID, LAST_SIGNAL, child, pending,
                   relayVars, hbPid>>

\* send_state(): UdpSocket::bind may fail, send_to may fail; both are ignored
send_state ==
    /\ Alive
    /\ pcHB = "send"
    /\ \E o \in {"bind_failed", "send_failed", "sent"} :
          /\ o = "sent" => sent < MaxSent
          /\ hbOutcome' = o
          /\ sent' = IF o = "sent" THEN sent + 1 ELSE sent
    /\ pcHB' = "sleep"
    /\ hbSlept' = 0
    /\ UNCHANGED <<argv, optVars, childArgv, killedByFwd, stray, mainVars, pcRelay, CHILD_PID, LAST_SIGNAL, child, pending,
                   relayVars, hbPid>>

\* thread::sleep(Duration::from_millis(delay))
deliver_state_sleep ==
    /\ Alive
    /\ pcHB = "sleep"
    /\ pcHB' = "load"
    /\ hbSlept' = delay
    /\ UNCHANGED <<argv, optVars, childArgv, killedByFwd, stray, mainVars, pcRelay, CHILD_PID, LAST_SIGNAL, child, pending,
                   relayVars, hbPid, hbOutcome, sent>>

----------------------------------------------------------------------------
(* environment: the child process and the senders of signals *)

\* a signal of the subscribed set is delivered to the supervisor
env_signal ==
    /\ Alive
    /\ pcRelay \notin {"unborn", "setup"}
    /\ \E s \in allowed_signals : s \notin pending /\ pending' = pending \cup {s}
    /\ UNCHANGED <<argv, optVars, childArgv, hbSlept, killedByFwd, stray, mainVars, pcRelay, pcHB, CHILD_PID, LAST_SIGNAL, child,
                   relaySig, relayPid, handled, killLog, hbPid, hbOutcome, sent>>

\* SIGCHLD reaches the supervisor when its child terminates, if the relay has
\* installed its handlers
sigchld == IF pcRelay \notin {"unborn", "setup"} /\ pcMain # "exited"
           THEN pending \cup {SIGCHLD} ELSE pending

\* the child returns from its main with some code
child_exit ==
    /\ child.state = "running"
    /\ \E n \in ExitCodes :
          child' = [child EXCEPT !.state = "zombie",
                                 !.status = [kind |-> "exited", val |-> n]]
    /\ pending' = sigchld
    /\ UNCHANGED <<argv, optVars, childArgv, hbSlept, killedByFwd, stray, mainVars, pcRelay, pcHB, CHILD_PID, LAST_SIGNAL,
                   relaySig, relayPid, handled, killLog, hbPid, hbOutcome, sent>>

\* the child is terminated by a signal, forwarded or sent by anyone else
child_killed ==
    /\ child.state = "running"
    /\ \E s \in KillSignals :
          child' = [child EXCEPT !.state = "zombie",
                                 !.status = [kind |-> "signaled", val |-> s]]
    /\ pending' = sigchld
    /\ killedByFwd' = \E i \in 1..Len(killLog) : killLog[i].sig = child'.status.val
    /\ UNCHANGED <<argv, optVars, childArgv, hbSlept, stray, mainVars, pcRelay, pcHB, CHILD_PID, LAST_SIGNAL,
                   relaySig, relayPid, handled, killLog, hbPid, hbOutcome, sent>>

\* once the child has been reaped the OS may give its pid to a new process
pid_recycled ==
    /\ Alive
    /\ child.state = "reaped"
    /\ child' = [child EXCEPT !.state = "recycled"]
    /\ UNCHANGED <<argv, optVars, childArgv, hbSlept, killedByFwd, stray, mainVars,
                   pcRelay, pcHB, CHILD_PID, LAST_SIGNAL, pending, relaySig, relayPid,
                   handled, killLog, hbPid, hbOutcome, sent>>

----------------------------------------------------------------------------
Next ==
    \/ main_no_args
    \/ main_start
    \/ execute_command_none
    \/ execute_command_spawn
    \/ execute_command_spawn_fail
    \/ execute_command_store
    \/ execute_command_wait
    \/ execute_command_wait_fail
    \/ execute_command_code
    \/ main_exit
    \/ listen_signals_setup
    \/ listen_signals_store
    \/ listen_signals_load
    \/ listen_signals_kill
    \/ deliver_state_setup
    \/ deliver_state_load
    \/ read_process_info
    \/ send_state
    \/ deliver_state_sleep
    \/ env_signal
    \/ child_exit
    \/ child_killed

Spec == Init /\ [][Next]_vars

\* the same program in an OS that reuses the pid of a reaped child
NextWithReuse == Next \/ pid_recycled

ReuseSpec == Init /\ [][NextWithReuse]_vars

\* the start of the supervisor, up to the spawn of the child, for every argument
\* list of OptArgLists and every content of the configuration files
OptInit ==
    /\ argv \in OptArgLists
    /\ fs \in FileSystems
    /\ InitProcess

OptNext ==
    \/ main_no_args
    \/ main_start
    \/ deliver_state_setup
    \/ execute_command_none
    \/ execute_command_spawn
    \/ execute_command_spawn_fail
    \/ main_exit

OptSpec == OptInit /\ [][OptNext]_vars

----------------------------------------------------------------------------
(* Properties *)

\* The launcher has obtained the child's termination status from wait().
WaitReturned == waitStatus # NoStatus

\* C1  Exit-code propagation: once the supervisor has exited after its wait()
\* returned a normal exit of the child with code N, the supervisor's exit code is
\* N, whatever the relay recorded or forwarded and whatever the emitter did.
ExitCodePropagation ==
    (pcMain = "exited" /\ WaitReturned /\ child.status.kind = "exited")
        => exitCode = child.status.val

\* C1 witness: a non-zero code is propagated in a run where a signal was recorded
\* and forwarded and a datagram was sent.
ExitCodePropagationWitness ==
    /\ pcMain = "exited"
    /\ WaitReturned
    /\ child.status = [kind |-> "exited", val |-> 3]
    /\ exitCode = 3
    /\ LAST_SIGNAL # 0
    /\ killLog # <<>>
    /\ sent > 0

\* C2  When wait() reports that the child was terminated by a signal, the exit
\* code is 128 plus the value of LAST_SIGNAL the launcher read after wait()
\* returned, so 128 when the relay has stored no signal by then; it need not be
\* 128 plus the signal that terminated the child.
SignalExitCode ==
    (pcMain = "exited" /\ WaitReturned /\ child.status.kind = "signaled")
        => /\ exitCode = UNIX_SIGNAL_EXIT_CODE + lastRead
           /\ (handled = <<>> /\ pcRelay # "load") => exitCode = UNIX_SIGNAL_EXIT_CODE

\* C2 witness: the child was terminated by SIGKILL and the supervisor reports
\* 128 + SIGCHLD, the signal it observed last.
SignalExitCodeWitness ==
    /\ pcMain = "exited"
    /\ WaitReturned
    /\ child.status = [kind |-> "signaled", val |-> SIGKILL]
    /\ lastRead = SIGCHLD
    /\ exitCode = UNIX_SIGNAL_EXIT_CODE + SIGCHLD

\* Every argument begins with the option marker (also true of the empty list).
OnlyOptions == \A i \in 1..Len(argv) : Len(argv[i]) > 0 /\ argv[i][1] = "+"

\* C3  No-command short-circuit: with no non-option argument nothing is spawned,
\* CHILD_PID stays 0, and the exit code is 0.
NoCommandShortCircuit ==
    OnlyOptions => /\ child.state = "none"
                   /\ CHILD_PID = 0
                   /\ pcMain = "exited" => exitCode = 0

\* C3 witness: a run with options only has exited, its relay having handled a
\* signal with no child to forward it to.
NoCommandShortCircuitWitness ==
    /\ argv = <<OptPort, OptFlag>>
    /\ pcMain = "exited"
    /\ exitCode = 0
    /\ handled # <<>>
    /\ killLog = <<>>

\* C4  CHILD_PID starts at 0 and changes only in the launcher's store after a
\* spawn, from 0 to a non-zero value: it is written at most once and never
\* changed or reset afterwards, also after the child has exited.
ChildPidSetOnce ==
    /\ CHILD_PID = 0
    /\ [][CHILD_PID' # CHILD_PID =>
            /\ CHILD_PID = 0
            /\ CHILD_PID' # 0
            /\ pcMain = "spawned" /\ pcMain' = "waiting"
            /\ child.state # "none"]_vars

\* C4 witness: the child has been reaped, the supervisor has exited and CHILD_PID
\* still holds the pid.
ChildPidSetOnceWitness ==
    /\ pcMain = "exited"
    /\ child.state = "reaped"
    /\ CHILD_PID = child.pid
    /\ CHILD_PID # 0

\* C5  Heartbeat silence while idle: while CHILD_PID is 0 no datagram has been
\* sent and the emitter is outside the body of its loop.
HeartbeatSilence ==
    CHILD_PID = 0 => sent = 0 /\ pcHB \in {"unborn", "setup", "load"}

\* C5 witness: the child runs, its pid is not yet published, the emitter loops.
HeartbeatSilenceWitness ==
    /\ child.state = "running"
    /\ pcMain = "spawned"
    /\ CHILD_PID = 0
    /\ pcHB = "load"
    /\ sent = 0

\* The exit code the main thread alone determines: 0 without a command, the
\* panic status when spawn() or wait() failed, else the code computed from the
\* status wait() returned and the LAST_SIGNAL value read.
LauncherCode ==
    IF OnlyOptions THEN 0
    ELSE IF ~WaitReturned THEN PANIC_EXIT_CODE
    ELSE IF waitStatus.kind = "exited" THEN waitStatus.val
    ELSE UNIX_SIGNAL_EXIT_CODE + lastRead

\* C6  Lossy-send tolerance: a step of the emitter out of the lookup or the send,
\* failed or not, leads to the sleep (or from a successful lookup to the send),
\* the sleep leads back to the start of the loop, none of these steps touches the
\* main thread or the shared atomics, and the exit code is the launcher's code
\* whatever the outcome of the emitter's cycles.
LossySendTolerance ==
    /\ [][pcHB' # pcHB =>
            /\ pcHB = "stat" => pcHB' \in {"send", "sleep"}
            /\ pcHB = "send" => pcHB' = "sleep"
            /\ pcHB = "sleep" => pcHB' = "load"
            /\ pcHB \in {"stat", "send", "sleep"} =>
                  UNCHANGED <<mainVars, CHILD_PID, LAST_SIGNAL>>]_vars
    /\ [](pcMain = "exited" => exitCode = LauncherCode)

\* C6 witness: after a cycle whose send failed the emitter is back at the start
\* of its loop, and the supervisor has exited with the child's code.
LossySendToleranceWitness ==
    /\ hbOutcome = "send_failed"
    /\ pcHB = "load"
    /\ pcMain = "exited"
    /\ child.status = [kind |-> "exited", val |-> 3]
    /\ exitCode = 3

\* The relay's iterations that have run to their end.
Completed == IF pcRelay = "kill" THEN SubSeq(handled, 1, Len(handled) - 1) ELSE handled

\* The iterations that read a non-zero pid with a signal number that is a
\* deliverable signal.
Forwardable == SelectSeq(Completed, LAMBDA e : e.pid # 0 /\ e.sig \in 1..31)

AllCaughtRedirected ==
    child.state # "none" =>
        /\ Len(killLog) = Len(Completed)
        /\ \A i \in 1..Len(Completed) :
              killLog[i] = [pid |-> child.pid, sig |-> Completed[i].sig]

\* C9  Causal publication: CHILD_PID is non-zero only once a child has been
\* spawned and then equals its pid; the launcher never waits before publishing;
\* the pids the relay and the emitter hold or have signalled are 0 or that pid.
CausalPublication ==
    /\ CHILD_PID # 0 => child.state # "none" /\ CHILD_PID = child.pid
    /\ pcMain \in {"waiting", "code"} => CHILD_PID # 0 /\ CHILD_PID = child.pid
    /\ relayPid \in {0, child.pid}
    /\ hbPid \in {0, child.pid}
    /\ pcHB \in {"stat", "send", "sleep"} => hbPid = child.pid /\ child.state # "none"
    /\ \A i \in 1..Len(killLog) : killLog[i].pid = child.pid /\ child.state # "none"

\* C9 witness: the launcher waits on the running child while the relay has
\* signalled the published pid and the emitter has reported it.
CausalPublicationWitness ==
    /\ pcMain = "waiting"
    /\ child.state = "running"
    /\ CHILD_PID = child.pid
    /\ relayPid = child.pid
    /\ hbPid = child.pid
    /\ killLog # <<>>
    /\ sent > 0

----------------------------------------------------------------------------
(* Liveness *)

\* the steps of the main thread
main_thread ==
    \/ main_no_args
    \/ main_start
    \/ execute_command_none
    \/ execute_command_spawn
    \/ execute_command_spawn_fail
    \/ execute_command_store
    \/ execute_command_wait
    \/ execute_command_wait_fail
    \/ execute_command_code
    \/ main_exit

\* The OS schedules the main thread whenever it can run; nothing is assumed of
\* the relay, the emitter, the child or the senders of signals.
FairSpec == Spec /\ WF_vars(main_thread)

\* C10  The program terminates with the launcher's completion: once the child
\* has terminated, or when there is no command, the supervisor eventually exits,
\* with the launcher's code, whatever the relay and the emitter are doing; the
\* two never leave their loops on their own.
TerminatesWithLauncher ==
    /\ [](child.state = "zombie" => <>(pcMain = "exited"))
    /\ [](OnlyOptions => <>(pcMain = "exited"))
    /\ [](pcMain = "exited" => exitCode = LauncherCode)
    /\ [][/\ pcRelay \in {"next", "load", "kill"} => pcRelay' \in {"next", "load", "kill"}
          /\ pcHB \in {"load", "stat", "send", "sleep"} =>
                pcHB' \in {"load", "stat", "send", "sleep"}]_vars

\* C10 witness: the supervisor has exited after the child was reaped while the
\* relay was blocked waiting for a signal and the emitter was asleep.
TerminatesWithLauncherWitness ==
    /\ pcMain = "exited"
    /\ child.state = "reaped"
    /\ WaitReturned
    /\ pcRelay = "next" /\ pending = {}
    /\ pcHB = "sleep"


----------------------------------------------------------------------------
(* Properties, continued *)

\* The supervisor has exited because spawn() failed / because wait() failed.
SpawnFailed == pcMain = "exited" /\ ~OnlyOptions /\ child.state = "none"
WaitFailed  == pcMain = "exited" /\ child.state # "none" /\ ~WaitReturned

\* C11  Fatal launcher errors: after a failed spawn or a failed wait the
\* supervisor has exited with a non-zero code and stays exited, nothing being
\* spawned afterwards; after a failed spawn CHILD_PID is 0, no signal has been
\* forwarded and no datagram sent.
FatalLauncherErrors ==
    /\ []((SpawnFailed \/ WaitFailed) => exitCode # 0)
    /\ [](SpawnFailed => CHILD_PID = 0 /\ killLog = <<>> /\ sent = 0)
    /\ [][pcMain = "exited" => pcMain' = "exited" /\ exitCode' = exitCode
                               /\ (child.state = "none" => child'.state = "none")]_vars

\* C11 witness: the spawn failed after the relay had taken a signal, which was
\* not forwarded; the exit code is the panic status.
FatalLauncherErrorsWitness ==
    /\ SpawnFailed
    /\ exitCode = PANIC_EXIT_CODE
    /\ handled # <<>>
    /\ pcHB = "load"


----------------------------------------------------------------------------
(* Resolution of the options *)

\* OPT has been evaluated
Resolved == pcHB \notin {"unborn", "setup"}

\* the options given on the command line
CmdLine == command_line_opts(argv)

\* the watch table of the configuration that was read, empty when none was
WatchTable ==
    LET conf == read_config_content(explicit_conf(CmdLine))
    IN  IF conf = <<>> THEN EmptyDict ELSE conf[1].watch

\* C12: a name given on the command line resolves to the command line's value,
\* also when that value is empty and whatever the configuration file says; a
\* name only the file gives resolves to the text of its scalar value (and to
\* nothing when the value is no scalar); a name neither gives has no entry.
OptionPrecedence ==
    Resolved =>
        /\ \A k \in DOMAIN CmdLine : k \in DOMAIN OPT /\ OPT[k] = CmdLine[k]
        /\ \A k \in DOMAIN WatchTable \ DOMAIN CmdLine :
              IF WatchTable[k].type \in {"String", "Integer", "Boolean"}
              THEN k \in DOMAIN OPT /\ OPT[k] = toml_to_string(WatchTable[k])[1]
              ELSE k \notin DOMAIN OPT
        /\ DOMAIN OPT \subseteq DOMAIN CmdLine \cup DOMAIN WatchTable

\* the command line gives Heartbeat an empty value, the file in the current
\* directory gives Heartbeat 7 and Name "c"
OptionPrecedenceWitness ==
    /\ Resolved
    /\ argv = <<OptHeartbeatEmpty, CmdLs>>
    /\ fs[CONF_LOCATION_CWD] = CwdToml
    /\ DOMAIN OPT = {OPT_HEARTBEAT, OPT_NAME}
    /\ OPT[OPT_HEARTBEAT] = EMPTY_STR
    /\ OPT[OPT_NAME] = <<"c">>


\* name is the part of text before its first delimiter, all of text when it has
\* none
NameIs(text, name) ==
    \E n \in 0..Len(text) :
        /\ name = SubSeq(text, 1, n)
        /\ \A i \in 1..n : text[i] # OPTION_DELIMITER
        /\ n = Len(text) \/ text[n + 1] = OPTION_DELIMITER

\* value is what follows the first delimiter of text, empty when it has none
ValueIs(text, name, value) ==
    IF Len(name) = Len(text) THEN value = EMPTY_STR
    ELSE value = SubSeq(text, Len(name) + 2, Len(text))

\* the entry of text is in OPT, unless a later option token, in the reading
\* Text of the tokens, gives the same name
EntryOf(i, Text(_)) ==
    \E k \in DOMAIN OPT :
        /\ NameIs(Text(argv[i]), k)
        /\ (\A j \in (i + 1)..Len(argv) :
                starts_with_option(argv[j]) => ~NameIs(Text(argv[j]), k))
           => ValueIs(Text(argv[i]), k, OPT[k])

\* what follows the marker, as the bytes of the token and as their lossy text
RawText(tok)   == Tail(tok)
LossyText(tok) == Tail(to_string_lossy(tok))

\* C13 as stated: every option token resolves to the name and the value that the
\* token itself holds, split at the first delimiter.
OptionParsing ==
    Resolved => \A i \in 1..Len(argv) : starts_with_option(argv[i]) => EntryOf(i, RawText)

\* C13: every option token resolves to the name and the value of its lossy text
\* (a byte that is not valid Unicode read as U+FFFD), split at the first
\* delimiter only, the value empty without a delimiter; of several tokens with
\* one name the last is kept.
OptionParsingLossy ==
    /\ Resolved =>
          \A i \in 1..Len(argv) : starts_with_option(argv[i]) => EntryOf(i, LossyText)
    /\ Resolved /\ argv # <<>> /\ argv[Len(argv)] = OptPort => OPT[<<"P">>] = <<"9">>
    /\ Resolved /\ argv # <<>> /\ argv[Len(argv)] = OptFlag => OPT[<<"F">>] = EMPTY_STR
    /\ Resolved /\ argv # <<>> /\ argv[Len(argv)] = OptHost
          => OPT[<<"H">>] = <<"h", ":", "1">>

\* a value that holds the delimiter and a value that is not valid Unicode
OptionParsingLossyWitness ==
    /\ Resolved
    /\ argv = <<OptNameLossy, OptHost>>
    /\ OPT[<<"H">>] = <<"h", ":", "1">>
    /\ OPT[OPT_NAME] = <<REPLACEMENT_CHARACTER>>


----------------------------------------------------------------------------
(* The command of the child *)

\* the positions of the tokens that do not begin with the marker
NonMarkerIndices == {i \in 1..Len(argv) : argv[i] = <<>> \/ argv[i][1] # OPTION_START}

\* seq is the tokens of argv at the positions idx, in their order
TokensAt(seq, idx) ==
    /\ Len(seq) = Cardinality(idx)
    /\ \A i \in idx : seq[Cardinality({j \in idx : j <= i})] = argv[i]

FirstCommandIndex == CHOOSE i \in NonMarkerIndices : \A j \in NonMarkerIndices : i <= j

\* C15 as stated: the child's argument vector is the suffix of the argument list
\* that begins at the first token that is no option, no token of it removed.
VerbatimCommand ==
    child.state # "none" => childArgv = SubSeq(argv, FirstCommandIndex, Len(argv))


----------------------------------------------------------------------------
(* The source of the configuration *)

\* the file at path exists and is a toml document
Usable(path) == path \in DOMAIN fs /\ fs[path].kind = "toml"

\* OPT is the command line's options completed by the scalar entries of table
CompletedBy(table) ==
    /\ \A k \in DOMAIN CmdLine : k \in DOMAIN OPT /\ OPT[k] = CmdLine[k]
    /\ \A k \in DOMAIN table \ DOMAIN CmdLine :
          IF table[k].type = "Array" THEN k \notin DOMAIN OPT
          ELSE k \in DOMAIN OPT /\ OPT[k] = toml_to_string(table[k])[1]
    /\ DOMAIN OPT \subseteq DOMAIN CmdLine \cup DOMAIN table

\* the default locations in the order of the probe
DefaultLocations == <<CONF_LOCATION_CWD, CONF_LOCATION_ETC_OWL, CONF_LOCATION_ETC>>

\* C16: with a Conf option on the command line only the location it names is
\* read, and when that gives no document OPT is the command line's options
\* alone; without one the current directory's file, /etc/owl/owl.toml and
\* /etc/owl.toml are tried in this order up to the first that exists and parses,
\* which is the one used; when none does, OPT is the command line's options
\* alone and the emitter goes on.
ConfigSourceSelection ==
    Resolved =>
        IF OPT_CONF \in DOMAIN CmdLine
        THEN /\ confOpened = <<CmdLine[OPT_CONF]>>
             /\ IF Usable(CmdLine[OPT_CONF]) THEN CompletedBy(fs[CmdLine[OPT_CONF]].watch)
                                             ELSE OPT = CmdLine
        ELSE LET usable == {i \in 1..3 : Usable(DefaultLocations[i])}
             IN  IF usable = {}
                 THEN confOpened = DefaultLocations /\ OPT = CmdLine /\ pcHB = "load"
                 ELSE \E f \in usable :
                         /\ \A i \in usable : f <= i
                         /\ confOpened = SubSeq(DefaultLocations, 1, f)
                         /\ CompletedBy(fs[DefaultLocations[f]].watch)

\* no Conf option, the current directory's file does not parse, both files
\* under /etc do: the first of these two is the one used
ConfigSourceSelectionWitness ==
    /\ Resolved
    /\ argv = <<CmdLs>>
    /\ fs[CONF_LOCATION_CWD] = GarbageFile
    /\ fs[CONF_LOCATION_ETC_OWL] = EtcOwlToml
    /\ fs[CONF_LOCATION_ETC] = EtcToml
    /\ confOpened = <<CONF_LOCATION_CWD, CONF_LOCATION_ETC_OWL>>
    /\ OPT = (OPT_HEARTBEAT :> <<"-", "5">>) @@ (<<"P">> :> <<"t", "r", "u", "e">>)


----------------------------------------------------------------------------
(* The interval of the emitter *)

\* the characters of str are decimal digits, at least one
IsUnsigned(str) ==
    /\ str # <<>>
    /\ \A i \in 1..Len(str) : str[i] \in {"0", "1", "2", "3", "4", "5", "6", "7", "8", "9"}

\* the number a string of decimal digits denotes, read from the left
RECURSIVE DecimalValue(_, _)
DecimalValue(str, acc) ==
    IF str = <<>> THEN acc
    ELSE DecimalValue(Tail(str),
                      10 * acc + (CHOOSE d \in 0..9 :
                                     <<"0", "1", "2", "3", "4", "5", "6", "7", "8", "9">>[d + 1]
                                         = Head(str)))

\* C17: without a Heartbeat entry in OPT the interval is 1000; with an entry
\* that is no unsigned integer (empty, negative) it is 1000 too and the emitter
\* runs on; else it is the number the entry denotes.
HeartbeatInterval ==
    Resolved =>
        /\ pcHB = "load"
        /\ IF OPT_HEARTBEAT \notin DOMAIN OPT THEN delay = 1000
           ELSE IF IsUnsigned(OPT[OPT_HEARTBEAT])
                THEN delay = DecimalValue(OPT[OPT_HEARTBEAT], 0)
                ELSE delay = 1000
        /\ OPT_HEARTBEAT \in DOMAIN OPT =>
              /\ OPT[OPT_HEARTBEAT] = <<"2", "5">> => delay = 25
              /\ OPT[OPT_HEARTBEAT] = <<"7">> => delay = 7
              /\ OPT[OPT_HEARTBEAT] = <<"1", "2", "0">> => delay = 120
              /\ OPT[OPT_HEARTBEAT] \in {EMPTY_STR, <<"-", "5">>} => delay = 1000

\* a negative Heartbeat on the command line, 7 in the configuration file
HeartbeatIntervalWitness ==
    /\ Resolved
    /\ argv = <<OptHeartbeatNeg, CmdLs>>
    /\ fs[CONF_LOCATION_CWD] = CwdToml
    /\ OPT[OPT_HEARTBEAT] = <<"-", "5">>
    /\ delay = DEFAULT_HEARTBEAT_MILLIS
    /\ pcHB = "load"


----------------------------------------------------------------------------
(* The pace of the emitter *)

\* one step of the emitter's cycle
PacedStep ==
    \* an idle cycle: no datagram, no sleep, CHILD_PID is read again
    /\ pcHB = "load" /\ pcHB' # "load" => CHILD_PID > 0 /\ pcHB' = "stat"
    /\ pcHB = "load" => sent' = sent /\ hbSlept' = hbSlept
    \* the lookup: on to the send, or when it fails to the sleep
    /\ pcHB = "stat" /\ pcHB' # "stat" => hbPid > 0 /\ pcHB' \in {"send", "sleep"}
    /\ pcHB = "stat" => sent' = sent
    \* the send: at most one datagram, then the sleep whatever became of it
    /\ pcHB = "send" /\ pcHB' # "send" => pcHB' = "sleep" /\ sent' \in {sent, sent + 1}
    /\ sent' # sent => pcHB = "send" /\ pcHB' = "sleep"
    \* the sleep: once, of the resolved interval, then the next cycle
    /\ pcHB = "sleep" /\ pcHB' # "sleep" =>
          pcHB' = "load" /\ hbSlept' = delay /\ sent' = sent
    /\ hbSlept' # hbSlept /\ hbSlept' # 0 => pcHB = "sleep" /\ hbSlept = 0

\* C18: a cycle that read a non-zero CHILD_PID sends at most one datagram and
\* then sleeps the resolved interval once, whether the lookup and the send
\* succeeded or not; when a datagram has been sent, the emitter has slept the
\* interval before it sends again; a cycle that read 0 neither sends nor sleeps
\* and reads CHILD_PID again.
HeartbeatPacing ==
    /\ [](pcHB = "send" /\ sent > 0 => hbSlept = delay /\ delay > 0)
    /\ [][PacedStep]_vars

\* the emitter is about to send again after a datagram and the sleep
HeartbeatPacingWitness ==
    /\ pcHB = "send"
    /\ sent = 1
    /\ hbSlept = DEFAULT_HEARTBEAT_MILLIS
    /\ delay = DEFAULT_HEARTBEAT_MILLIS


----------------------------------------------------------------------------
(* The signal that is recorded and the signal that is forwarded *)

\* the signal the relay has taken from its iterator last, 0 when none yet
LastRecorded ==
    IF pcRelay = "load" THEN relaySig
    ELSE IF handled # <<>> THEN handled[Len(handled)].sig ELSE 0

\* the child was terminated by a signal the relay had forwarded to it
KilledByForwarded == waitStatus.kind = "signaled" /\ killedByFwd

\* C19: when the relay forwards a signal, LAST_SIGNAL holds that signal; and
\* when the child was killed by a forwarded signal s and s is still the last
\* signal the relay has taken when the launcher reads LAST_SIGNAL, the launcher
\* returns 128 + s, which is then the exit code of the supervisor.
RecordBeforeForward ==
    /\ [][killLog' # killLog =>
            /\ LAST_SIGNAL = killLog'[Len(killLog')].sig
            /\ LAST_SIGNAL' = LAST_SIGNAL]_vars
    /\ [][pcMain = "code" /\ pcMain' = "exit" /\ KilledByForwarded
            /\ LastRecorded = waitStatus.val
          => lastRead' = waitStatus.val
             /\ retCode' = UNIX_SIGNAL_EXIT_CODE + waitStatus.val]_vars
    /\ [](pcMain = "exited" /\ KilledByForwarded /\ lastRead = waitStatus.val
          => exitCode = UNIX_SIGNAL_EXIT_CODE + waitStatus.val)

\* SIGTERM was forwarded to the child, which died of it; the supervisor has
\* exited with 143 before the relay took the SIGCHLD
RecordBeforeForwardWitness ==
    /\ pcMain = "exited"
    /\ waitStatus = [kind |-> "signaled", val |-> SIGTERM]
    /\ killedByFwd
    /\ killLog = <<[pid |-> CHILD_PID, sig |-> SIGTERM]>>
    /\ LastRecorded = SIGTERM
    /\ SIGCHLD \in pending
    /\ exitCode = UNIX_SIGNAL_EXIT_CODE + SIGTERM


----------------------------------------------------------------------------
(* The target of the forwarded signals *)

\* C20 as stated: every signal the relay sends goes to the process the launcher
\* spawned, never to another process that has come to own the pid of the reaped
\* child.
ForwardingTargetsChild ==
    /\ \A i \in 1..Len(killLog) : killLog[i].pid = child.pid
    /\ ~stray

====
